---- MODULE Spec2Model ----
(***************************************************************************)
(* Amortization engines of mai_amortizacao: calculateAmortization,         *)
(* calculateAmortizationBase and calculateExtraNeeded (financeUtils.ts)    *)
(* and FinanceEngine.calculateAmortizationSchedule (engine.ts).            *)
(*                                                                         *)
(* Numbers.  A JavaScript number is an IEEE double.  It is modelled as a   *)
(* fixed-point integer: money and percentages in units of 1/MoneyScale,    *)
(* every other real (rates, factors, powers) in units of 1/RateScale.      *)
(* A product or quotient is rounded to the nearest unit, as the double is  *)
(* rounded to the nearest representable value; sums and differences are    *)
(* exact.  NaN and Infinity are two values outside the range of the        *)
(* finite numbers; NaN propagates through every operation and makes every  *)
(* comparison false, as in IEEE arithmetic.                                *)
(***************************************************************************)
EXTENDS Integers, Sequences, FiniteSets, TLC

Base == 10^4
RateScale == Base * Base
MoneyScale == 10^4
NaN == 0 - 2147483647
Infinity == 0 + 2147483647

IsNaN(x) == x = NaN
Abs(x) == IF x < 0 THEN -x ELSE x
Sign(x) == IF x < 0 THEN -1 ELSE 1

\* Comparisons: false as soon as one side is NaN.
Le(a, b) == ~IsNaN(a) /\ ~IsNaN(b) /\ a <= b
Lt(a, b) == ~IsNaN(a) /\ ~IsNaN(b) /\ a < b
Gt(a, b) == ~IsNaN(a) /\ ~IsNaN(b) /\ a > b
Eq(a, b) == ~IsNaN(a) /\ ~IsNaN(b) /\ a = b

Add(a, b) == IF IsNaN(a) \/ IsNaN(b) THEN NaN ELSE a + b
Sub(a, b) == IF IsNaN(a) \/ IsNaN(b) THEN NaN ELSE a - b

\* Math.min, Math.max: NaN when an argument is NaN.
Min(a, b) == IF IsNaN(a) \/ IsNaN(b) THEN NaN ELSE IF a <= b THEN a ELSE b
Max(a, b) == IF IsNaN(a) \/ IsNaN(b) THEN NaN ELSE IF a >= b THEN a ELSE b

\* x || 0: a falsy number (0, NaN) or a missing key gives 0.
OrZero(x) == IF IsNaN(x) THEN 0 ELSE x

\* a * b / RateScale for a, b >= 0, rounded to nearest, computed on the
\* base-Base digits of a and b so that no intermediate leaves 32 bits.
MulScaled(a, b) ==
    LET ah == a \div Base
        al == a % Base
        bh == b \div Base
        bl == b % Base
        mid == ah * bl + al * bh
        lo == al * bl + (RateScale \div 2)
    IN  ah * bh + ((mid + (lo \div Base)) \div Base)

\* x * r, r a real in units of 1/RateScale.
Mul(x, r) ==
    IF IsNaN(x) \/ IsNaN(r) THEN NaN
    ELSE Sign(x) * Sign(r) * MulScaled(Abs(x), Abs(r))

\* <<q, rem>> with a * b = q * c + rem and 0 <= rem < c, for a, b >= 0 < c,
\* by doubling on the bits of b until the product fits 32 bits.
\* <<carry, (x + y) % c>> for 0 <= x, y < c, without forming x + y.
AddMod(x, y, c) == IF x >= c - y THEN <<1, x - (c - y)>> ELSE <<0, x + y>>

RECURSIVE MulDivQR(_, _, _)
MulDivQR(a, b, c) ==
    IF b = 0 THEN <<0, 0>>
    ELSE IF a = 0 \/ b <= (2^30) \div a THEN <<(a * b) \div c, (a * b) % c>>
    ELSE LET h == MulDivQR(a, b \div 2, c)
             add == IF b % 2 = 1 THEN a ELSE 0
             dbl == AddMod(h[2], h[2], c)
             sum == AddMod(dbl[2], add % c, c)
         IN  <<2 * h[1] + (add \div c) + dbl[1] + sum[1], sum[2]>>

\* a * b / c rounded to nearest, for a, b >= 0; c = 0 gives NaN (0/0) or
\* Infinity (x/0, x > 0).
MulDiv(a, b, c) ==
    IF IsNaN(a) \/ IsNaN(b) \/ IsNaN(c) THEN NaN
    ELSE IF c = 0 THEN (IF a = 0 \/ b = 0 THEN NaN ELSE Infinity)
    ELSE LET qr == MulDivQR(a, b, c)
         IN  qr[1] + (IF qr[2] >= c - qr[2] THEN 1 ELSE 0)

\* x / n, n a plain integer.
Div(x, n) ==
    IF IsNaN(x) THEN NaN
    ELSE IF n = 0 THEN (IF x = 0 THEN NaN ELSE Infinity)
    ELSE Sign(x) * Sign(n) * ((2 * Abs(x) + Abs(n)) \div (2 * Abs(n)))

\* Math.pow(x, n) for an integer n >= 0, x in units of 1/RateScale, by
\* repeated squaring.
RECURSIVE Pow(_, _)
Pow(x, n) ==
    IF n <= 0 THEN RateScale
    ELSE IF n % 2 = 0 THEN LET h == Pow(x, n \div 2) IN Mul(h, h)
    ELSE Mul(Pow(x, n - 1), x)

\* Math.pow(x, 1/12) for x >= 1: the 12th root, by bisection on Pow.
RECURSIVE RootBetween(_, _, _)
RootBetween(x, lo, hi) ==
    IF hi - lo <= 1
    THEN (IF x - Pow(lo, 12) <= Pow(hi, 12) - x THEN lo ELSE hi)
    ELSE LET mid == (lo + hi) \div 2
         IN  IF Pow(mid, 12) <= x THEN RootBetween(x, mid, hi)
             ELSE RootBetween(x, lo, mid)

\* For x > 1 the root lies between 1 and 1 + (x - 1) / 12.
Root12(x) ==
    IF IsNaN(x) THEN NaN
    ELSE IF x <= RateScale THEN RateScale
    ELSE RootBetween(x, RateScale, RateScale + ((x - RateScale) \div 12) + 1)

\* A percentage p (12 for 12%), in units of 1/MoneyScale like the money.
Pct(p) == p * MoneyScale

\* x / 100 for a percentage x: a real in units of 1/RateScale.
Hundredth(x) == IF IsNaN(x) THEN NaN ELSE x * (RateScale \div (100 * MoneyScale))

(***************************************************************************)
(* Program constants.                                                      *)
(***************************************************************************)
Tol == MoneyScale \div 100          \* 0.01: "paid off" threshold of engine.ts
FGTSPeriod == 24                    \* FGTS is applied in months 24, 48, ...
FGTSRate == (8 * RateScale) \div 100 \* 0.08 of the gross income
MonthsPerYear == 12
SolverIterations == 20

(***************************************************************************)
(* Bounds of the model and the inputs drawn within them.                   *)
(***************************************************************************)
MaxTerm == 4
MaxYears == 2

Loan == 2^20
PropertyPrice == 2 * Loan
NoExtras == <<>>

TermMonthsSet == (1 .. MaxTerm) \cup {FGTSPeriod + 1}
TermYearsSet == 1 .. MaxYears
LoanAmounts == {Tol \div 2, Loan, Loan + (Loan \div 2) + 7}
AnnualRates == {Pct(0), Pct(12), Pct(60)}
MonthlyExtras == {0, Loan \div 16, Loan \div 3}
OneTimeExtrasSet == {NoExtras, 1 :> 2 * PropertyPrice, 2 :> Loan \div 4}
Types == {"SAC", "PRICE"}
Strategies == {"REDUCE_TERM", "REDUCE_INSTALLMENT"}
FGTSOff == [initialBalance |-> 0, monthlyGrossIncome |-> 0, useEveryTwoYears |-> FALSE]
FGTSConfigs ==
    { FGTSOff,
      [initialBalance |-> Loan \div 4, monthlyGrossIncome |-> Loan \div 8,
       useEveryTwoYears |-> TRUE],
      [initialBalance |-> Loan \div 4, monthlyGrossIncome |-> Loan \div 8,
       useEveryTwoYears |-> FALSE] }

\* The arguments of calculateAmortization; appreciationRate is the 5 the
\* application always passes (and the default).
UtilsParams ==
    [ propertyValue : {PropertyPrice},
      loanAmount : LoanAmounts,
      annualInterestRate : AnnualRates,
      termMonths : TermMonthsSet,
      type : Types,
      monthlyExtra : MonthlyExtras,
      oneTimeExtras : OneTimeExtrasSet,
      appreciationRate : {Pct(5)},
      fgts : FGTSConfigs ]

(***************************************************************************)
(* calculateAmortization (financeUtils.ts).                                *)
(***************************************************************************)
\* oneTimeExtras[month] || 0
Lookup(o, m) == IF m \in DOMAIN o THEN OrZero(o[m]) ELSE 0

\* P * (i * (1 + i)^n) / ((1 + i)^n - 1)
PricePayment(P, i, n) ==
    LET pw == Pow(Add(RateScale, i), n)
    IN  MulDiv(P, Mul(i, pw), Sub(pw, RateScale))

\* (1 + annual / 100) ^ (1 / 12) - 1
MonthlyEquivalentOf(annual) == Sub(Root12(Add(RateScale, Hundredth(annual))), RateScale)

\* The same, computed once for the percentages the inputs are drawn from.
MonthlyEquivalentTable == [a \in AnnualRates \cup {Pct(5)} |-> MonthlyEquivalentOf(a)]

MonthlyEquivalent(annual) ==
    IF annual \in DOMAIN MonthlyEquivalentTable THEN MonthlyEquivalentTable[annual]
    ELSE MonthlyEquivalentOf(annual)

\* Lines 39-55: the locals before the loop.
UtilsStart(p) ==
    LET i == Div(Hundredth(p.annualInterestRate), 12)
    IN  [ monthlyInterestRate |-> i,
          monthlyAppreciationRate |-> MonthlyEquivalent(p.appreciationRate),
          installments |-> <<>>,
          balance |-> p.loanAmount,
          propertyValue |-> p.propertyValue,
          totalPaid |-> 0,
          totalInterest |-> 0,
          currentFGTSBalance |-> p.fgts.initialBalance,
          monthlyFGTSDeposit |-> Mul(p.fgts.monthlyGrossIncome, FGTSRate),
          fixedPricePayment |-> PricePayment(p.loanAmount, i, p.termMonths),
          extra |-> 0,
          month |-> 1 ]

\* An extra above what is left dropped instead of capped.
UtilsActualExtraDropped(extra, balance, amortization) ==
    IF Gt(extra, Sub(balance, amortization)) THEN 0 ELSE extra

\* Line 89: the extra paid is what is offered, capped at what is left.
UtilsActualExtra(extra, balance, amortization) ==
    Min(extra, Sub(balance, amortization))

\* Line 92: currentBalance -= (amortization + actualExtra)
UtilsBalanceAfter(balance, amortization, actualExtra) ==
    Sub(balance, Add(amortization, actualExtra))

\* The loop counter advanced twice.
NextMonthSkipping(month) == month + 2

\* Line 57: month++
NextMonth(month) == month + 1

\* The loop left one month before the end of the term.
UtilsStopsEarly(p, l) == l.month >= p.termMonths \/ Le(l.balance, 0)

\* Lines 57-58: the loop stops at the end of the term or on a zero balance.
UtilsStops(p, l) == l.month > p.termMonths \/ Le(l.balance, 0)

\* The fixed amortization taken over one month more than the term.
UtilsSacAmortizationLonger(p) == Div(p.loanAmount, p.termMonths + 1)

\* Line 68: amortization = loanAmount / termMonths
UtilsSacAmortization(p) == Div(p.loanAmount, p.termMonths)

\* The wallet applied in every month divisible by 12.
UtilsFGTSAppliesEveryYear(p, month) ==
    p.fgts.useEveryTwoYears /\ month % MonthsPerYear = 0

\* Line 84: fgts.useEveryTwoYears && month % 24 === 0
UtilsFGTSApplies(p, month) ==
    p.fgts.useEveryTwoYears /\ month % FGTSPeriod = 0

\* Lines 60-105 and the month++ of line 57: one iteration of the loop.
UtilsMonth(p, l) ==
    LET accrued == Add(l.currentFGTSBalance, l.monthlyFGTSDeposit)
        interest == Mul(l.balance, l.monthlyInterestRate)
        amort0 == IF p.type = "SAC" THEN UtilsSacAmortization(p)
                  ELSE Sub(l.fixedPricePayment, interest)
        pay0 == IF p.type = "SAC" THEN Add(amort0, interest)
                ELSE l.fixedPricePayment
        capped == Gt(amort0, l.balance)
        amortization == IF capped THEN l.balance ELSE amort0
        payment == IF capped THEN Add(amortization, interest) ELSE pay0
        extra0 == Add(p.monthlyExtra, Lookup(p.oneTimeExtras, l.month))
        useFGTS == UtilsFGTSApplies(p, l.month)
        extra == IF useFGTS THEN Add(extra0, accrued) ELSE extra0
        actualExtra == UtilsActualExtra(extra, l.balance, amortization)
        newBalance == UtilsBalanceAfter(l.balance, amortization, actualExtra)
    IN  [ l EXCEPT
            !.currentFGTSBalance = IF useFGTS THEN 0 ELSE accrued,
            !.balance = newBalance,
            !.propertyValue = Mul(l.propertyValue, Add(RateScale, l.monthlyAppreciationRate)),
            !.totalPaid = Add(l.totalPaid, Add(payment, actualExtra)),
            !.totalInterest = Add(l.totalInterest, interest),
            !.extra = extra,
            !.installments = Append(l.installments,
                [ month |-> l.month,
                  initialBalance |-> l.balance,
                  payment |-> Add(payment, actualExtra),
                  interest |-> interest,
                  amortization |-> amortization,
                  extraAmortization |-> actualExtra,
                  balance |-> Max(0, newBalance) ]),
            !.month = NextMonth(l.month) ]

\* The whole loop, as the solver and the baseline see it.
RECURSIVE UtilsRun(_, _)
UtilsRun(p, l) == IF UtilsStops(p, l) THEN l ELSE UtilsRun(p, UtilsMonth(p, l))

\* calculateAmortizationBase, lines 123-148: the reference total interest.
RECURSIVE BaseLoop(_, _, _, _, _, _)
BaseLoop(p, i, pmt, month, bal, totalInterest) ==
    IF month > p.termMonths THEN totalInterest
    ELSE LET interest == Mul(bal, i)
             amort0 == IF p.type = "SAC" THEN Div(p.loanAmount, p.termMonths)
                       ELSE Sub(pmt, interest)
             amortization == IF Gt(amort0, bal) THEN bal ELSE amort0
             new == [ balance |-> Sub(bal, amortization),
                      totalInterest |-> Add(totalInterest, interest) ]
         IN  IF Le(new.balance, 0) THEN new.totalInterest
             ELSE BaseLoop(p, i, pmt, month + 1, new.balance, new.totalInterest)

calculateAmortizationBase(p) ==
    LET i == Div(Hundredth(p.annualInterestRate), 12)
    IN  BaseLoop(p, i, PricePayment(p.loanAmount, i, p.termMonths), 1, p.loanAmount, 0)

\* Lines 108-120: the value returned.
UtilsResult(p, l) ==
    [ installments |-> l.installments,
      totalPaid |-> l.totalPaid,
      totalInterest |-> l.totalInterest,
      monthsReduced |-> p.termMonths - Len(l.installments),
      totalSaved |-> Sub(calculateAmortizationBase(p), l.totalInterest),
      finalPropertyValue |-> l.propertyValue ]

calculateAmortization(p) == UtilsResult(p, UtilsRun(p, UtilsStart(p)))

(***************************************************************************)
(* FinanceEngine.calculateAmortizationSchedule (engine.ts).                *)
(***************************************************************************)
NoFees == [insuranceRateMIP |-> 0, insuranceRateDFI |-> 0, adminFeeMonthly |-> 0]
SomeFees == [insuranceRateMIP |-> 3 * Base, insuranceRateDFI |-> Base,
             adminFeeMonthly |-> 25 * MoneyScale]

\* The SimulationParams the schedule reads; the fees are drawn together.
EngineParams ==
    { [ propertyValue |-> PropertyPrice,
        downPayment |-> PropertyPrice - principal,
        originalTermYears |-> years,
        interestRateAnnual |-> rate,
        amortizationSystem |-> system,
        insuranceRateMIP |-> fees.insuranceRateMIP,
        insuranceRateDFI |-> fees.insuranceRateDFI,
        adminFeeMonthly |-> fees.adminFeeMonthly,
        propertyAppreciationAnnual |-> Pct(5),
        extraAmortizationMonthly |-> extra,
        extraAmortizationLumpSums |-> lumps,
        strategyType |-> strategy ] :
      principal \in LoanAmounts, years \in TermYearsSet, rate \in AnnualRates,
      system \in Types, fees \in {NoFees, SomeFees}, extra \in MonthlyExtras,
      lumps \in OneTimeExtrasSet, strategy \in Strategies }

\* Lines 75-95: the locals before the loop.
EngineStart(p) ==
    LET loanAmount == Sub(p.propertyValue, p.downPayment)
        monthlyRate == MonthlyEquivalent(p.interestRateAnnual)
        totalMonths == p.originalTermYears * MonthsPerYear
    IN  [ installments |-> <<>>,
          balance |-> loanAmount,
          propertyValue |-> p.propertyValue,
          loanAmount |-> loanAmount,
          monthlyRate |-> monthlyRate,
          monthlyAppreciation |-> MonthlyEquivalent(p.propertyAppreciationAnnual),
          totalMonths |-> totalMonths,
          initialPricePMT |-> IF p.amortizationSystem = "PRICE"
                              THEN PricePayment(loanAmount, monthlyRate, totalMonths)
                              ELSE 0,
          month |-> 1 ]

\* Lines 159-164: the extra offered, capped at what is left.
EngineExtraAmort(extra, balance, amortization) ==
    IF Gt(extra, Sub(balance, amortization)) THEN Sub(balance, amortization)
    ELSE extra

\* Lines 167-168: balance -= (amortization + extraAmort), floored at 0.
EngineBalanceAfter(balance, amortization, extraAmort) ==
    LET b == Sub(balance, Add(amortization, extraAmort))
    IN  IF Lt(b, 0) THEN 0 ELSE b

\* Lines 97-98: the loop stops at the end of the term or once paid off.
EngineStops(p, l) == l.month > l.totalMonths \/ Le(l.balance, Tol)

\* The payment recomputed over the whole term instead of the months left.
EnginePmtOverWholeTerm(p, l) ==
    IF p.strategyType = "REDUCE_INSTALLMENT"
    THEN PricePayment(l.balance, l.monthlyRate, l.totalMonths)
    ELSE l.initialPricePMT

\* Lines 126-130: the PRICE payment of the month.
EnginePmt(p, l) ==
    IF p.strategyType = "REDUCE_INSTALLMENT"
    THEN PricePayment(l.balance, l.monthlyRate, l.totalMonths - l.month + 1)
    ELSE l.initialPricePMT

\* Lines 100-187 and the month++ of line 97: one iteration of the loop.
EngineMonth(p, l) ==
    LET year == (l.month + MonthsPerYear - 1) \div MonthsPerYear
        initialBalance == l.balance
        interest == Mul(initialBalance, l.monthlyRate)
        pmt == EnginePmt(p, l)
        priceAmort == Sub(pmt, interest)
        amort0 == IF p.amortizationSystem = "SAC" THEN Div(l.loanAmount, l.totalMonths)
                  ELSE IF Lt(priceAmort, 0) THEN 0 ELSE priceAmort
        pay0 == IF p.amortizationSystem = "SAC" THEN Add(amort0, interest) ELSE pmt
        capped == Gt(amort0, l.balance)
        amortization == IF capped THEN l.balance ELSE amort0
        regularPayment == IF capped THEN Add(amortization, interest) ELSE pay0
        mip == Mul(initialBalance, OrZero(p.insuranceRateMIP))
        dfi == Mul(p.propertyValue, OrZero(p.insuranceRateDFI))
        adminFee == p.adminFeeMonthly
        fullPayment == Add(Add(Add(regularPayment, mip), dfi), adminFee)
        extra0 == Add(p.extraAmortizationMonthly,
                      Lookup(p.extraAmortizationLumpSums, l.month))
        extraAmort == EngineExtraAmort(extra0, l.balance, amortization)
        newBalance == EngineBalanceAfter(l.balance, amortization, extraAmort)
        newValue == Mul(l.propertyValue, Add(RateScale, l.monthlyAppreciation))
    IN  [ l EXCEPT
            !.balance = newBalance,
            !.propertyValue = newValue,
            !.installments = Append(l.installments,
                [ month |-> l.month,
                  year |-> year,
                  initialBalance |-> initialBalance,
                  finalBalance |-> newBalance,
                  interest |-> interest,
                  amortization |-> amortization,
                  extraAmortization |-> extraAmort,
                  insuranceMIP |-> mip,
                  insuranceDFI |-> dfi,
                  adminFee |-> adminFee,
                  totalPayment |-> fullPayment,
                  totalCashFlow |-> Add(fullPayment, extraAmort),
                  propertyValue |-> newValue,
                  netEquity |-> Sub(newValue, newBalance) ]),
            !.month = NextMonth(l.month) ]

RECURSIVE EngineRun(_, _)
EngineRun(p, l) == IF EngineStops(p, l) THEN l ELSE EngineRun(p, EngineMonth(p, l))

\* Line 190: the value returned.
calculateAmortizationSchedule(p) == EngineRun(p, EngineStart(p)).installments


(***************************************************************************)
(* The state: the function running, its arguments, its position, its       *)
(* local variables and the value it returned.                              *)
(***************************************************************************)
VARIABLES fn, params, pc, loc, result, first

vars == <<fn, params, pc, loc, result, first>>

None == [none |-> TRUE]

\* No call has been made.  first is a history variable: the arguments and
\* the value returned of the first call that returned to its caller.
Init ==
    /\ fn = "none"
    /\ params = None
    /\ pc = "idle"
    /\ loc = None
    /\ result = None
    /\ first = None

\* A call whose interest total starts from the one the call before left.
CallUtilsKeepingTotal(p) ==
    /\ pc = "idle"
    /\ fn' = "calculateAmortization"
    /\ params' = p
    /\ loc' = IF "totalInterest" \in DOMAIN loc
              THEN [UtilsStart(p) EXCEPT !.totalInterest = loc.totalInterest]
              ELSE UtilsStart(p)
    /\ pc' = "loop"
    /\ result' = None
    /\ UNCHANGED first

\* A caller invokes calculateAmortization with arguments p.
CallUtils(p) ==
    /\ pc = "idle"
    /\ fn' = "calculateAmortization"
    /\ params' = p
    /\ loc' = UtilsStart(p)
    /\ pc' = "loop"
    /\ result' = None
    /\ UNCHANGED first

UtilsStep ==
    /\ pc = "loop"
    /\ fn = "calculateAmortization"
    /\ ~UtilsStops(params, loc)
    /\ loc' = UtilsMonth(params, loc)
    /\ UNCHANGED <<fn, params, pc, result, first>>

UtilsReturn ==
    /\ pc = "loop"
    /\ fn = "calculateAmortization"
    /\ UtilsStops(params, loc)
    /\ result' = UtilsResult(params, loc)
    /\ pc' = "done"
    /\ UNCHANGED <<fn, params, loc, first>>

\* A caller invokes FinanceEngine.calculateAmortizationSchedule with p.
CallEngine(p) ==
    /\ pc = "idle"
    /\ fn' = "calculateAmortizationSchedule"
    /\ params' = p
    /\ loc' = EngineStart(p)
    /\ pc' = "loop"
    /\ result' = None
    /\ UNCHANGED first

EngineStep ==
    /\ pc = "loop"
    /\ fn = "calculateAmortizationSchedule"
    /\ ~EngineStops(params, loc)
    /\ loc' = EngineMonth(params, loc)
    /\ UNCHANGED <<fn, params, pc, result, first>>

EngineReturn ==
    /\ pc = "loop"
    /\ fn = "calculateAmortizationSchedule"
    /\ EngineStops(params, loc)
    /\ result' = loc.installments
    /\ pc' = "done"
    /\ UNCHANGED <<fn, params, loc, first>>

CallUtilsValid == \E p \in UtilsParams : CallUtils(p)
CallEngineValid == \E p \in EngineParams : CallEngine(p)

\* One call of a generator with valid arguments.
Next ==
    \/ CallUtilsValid
    \/ UtilsStep
    \/ UtilsReturn
    \/ CallEngineValid
    \/ EngineStep
    \/ EngineReturn

Spec == Init /\ [][Next]_vars

(***************************************************************************)
(* calculateExtraNeeded (financeUtils.ts): twenty bisection steps on the   *)
(* recurring extra, each a whole call of calculateAmortization.            *)
(***************************************************************************)
\* The arguments of calculateExtraNeeded, the target below the term.
SolverParams ==
    { p \in [ propertyValue : {PropertyPrice},
              loanAmount : {Loan, Loan + (Loan \div 2) + 7},
              annualInterestRate : AnnualRates,
              termMonths : (2 .. MaxTerm) \cup {FGTSPeriod + 1},
              type : Types,
              targetMonths : 1 .. FGTSPeriod ] :
        p.targetMonths < p.termMonths }

\* Line 164: the call the solver makes, the other arguments at their defaults.
SolverCall(p, extra) ==
    calculateAmortization(
        [ propertyValue |-> p.propertyValue,
          loanAmount |-> p.loanAmount,
          annualInterestRate |-> p.annualInterestRate,
          termMonths |-> p.termMonths,
          type |-> p.type,
          monthlyExtra |-> extra,
          oneTimeExtras |-> NoExtras,
          appreciationRate |-> Pct(5),
          fgts |-> FGTSOff ])

\* Lines 158-160 and the i = 0 of line 162.
SolverStart(p) == [low |-> 0, high |-> p.loanAmount, extra |-> 0, i |-> 0]

\* The loop left as soon as the interval is narrower than 0.01.
SolverStopsWhenConverged(l) == ~(l.i < SolverIterations) \/ Le(Sub(l.high, l.low), Tol)

\* Line 162: i < 20
SolverStops(l) == ~(l.i < SolverIterations)

\* Lines 163-169 and the i++ of line 162: one bisection step.
SolverIteration(p, l) ==
    LET extra == Div(Add(l.low, l.high), 2)
        longer == Len(SolverCall(p, extra).installments) > p.targetMonths
    IN  [ low |-> IF longer THEN extra ELSE l.low,
          high |-> IF longer THEN l.high ELSE extra,
          extra |-> extra,
          i |-> l.i + 1 ]

RECURSIVE SolverRun(_, _)
SolverRun(p, l) == IF SolverStops(l) THEN l ELSE SolverRun(p, SolverIteration(p, l))

\* Line 172: the value returned.
calculateExtraNeeded(p) == SolverRun(p, SolverStart(p)).high

\* A caller invokes calculateExtraNeeded with arguments p.
CallSolver(p) ==
    /\ pc = "idle"
    /\ fn' = "calculateExtraNeeded"
    /\ params' = p
    /\ loc' = SolverStart(p)
    /\ pc' = "loop"
    /\ result' = None
    /\ UNCHANGED first

SolverStep ==
    /\ pc = "loop"
    /\ fn = "calculateExtraNeeded"
    /\ ~SolverStops(loc)
    /\ loc' = SolverIteration(params, loc)
    /\ UNCHANGED <<fn, params, pc, result, first>>

SolverReturn ==
    /\ pc = "loop"
    /\ fn = "calculateExtraNeeded"
    /\ SolverStops(loc)
    /\ result' = loc.high
    /\ pc' = "done"
    /\ UNCHANGED <<fn, params, loc, first>>

CallSolverValid == \E p \in SolverParams : CallSolver(p)

NextSolver ==
    \/ CallSolverValid
    \/ SolverStep
    \/ SolverReturn

SpecSolver == Init /\ [][NextSolver]_vars

(***************************************************************************)
(* FinanceEngine.compareScenarios (engine.ts): the rent-and-invest path    *)
(* run month by month beside a buy schedule, then the decision.            *)
(***************************************************************************)
\* breakEvenMonth: null
Null == "null"

\* The SimulationParams of a comparison: those the schedule reads and the
\* three only compareScenarios reads.
CompareAllParams ==
    { [ propertyValue |-> PropertyPrice,
        downPayment |-> PropertyPrice - principal,
        originalTermYears |-> years,
        interestRateAnnual |-> rate,
        amortizationSystem |-> system,
        insuranceRateMIP |-> 0,
        insuranceRateDFI |-> 0,
        adminFeeMonthly |-> 0,
        propertyAppreciationAnnual |-> Pct(5),
        inflationAnnual |-> inflation,
        investmentBenchmarkAnnual |-> benchmark,
        rentEstimateMonthly |-> rent,
        extraAmortizationMonthly |-> extra,
        extraAmortizationLumpSums |-> lumps,
        strategyType |-> strategy ] :
      principal \in {Tol \div 2, Loan}, years \in TermYearsSet, rate \in AnnualRates,
      system \in Types, inflation \in {Pct(0), Pct(5)},
      benchmark \in {Pct(0), Pct(60)}, rent \in {0, Loan \div 64, Loan},
      extra \in {0, Loan \div 16}, lumps \in {NoExtras, 1 :> 2 * PropertyPrice},
      strategy \in Strategies }

\* The combinations for the loan of Loan (a one-time extra only without a
\* recurring one, inflation only with a rent), and a few with the principal
\* the engine gives no installment for.
CompareParams ==
    { p \in CompareAllParams :
        \/ /\ p.downPayment = PropertyPrice - Loan
           /\ p.extraAmortizationLumpSums = NoExtras \/ p.extraAmortizationMonthly = 0
           /\ p.inflationAnnual = Pct(0) \/ p.rentEstimateMonthly > 0
        \/ /\ p.interestRateAnnual = Pct(12)
           /\ p.amortizationSystem = "SAC"
           /\ p.strategyType = "REDUCE_TERM"
           /\ p.extraAmortizationMonthly = 0
           /\ p.extraAmortizationLumpSums = NoExtras
           /\ p.inflationAnnual = Pct(0) }

\* Lines 200-209 and 239, and the i = 0 of line 241.
CompareStart(p) ==
    [ monthlyInvRate |-> MonthlyEquivalent(p.investmentBenchmarkAnnual),
      monthlyRentAdj |-> MonthlyEquivalent(p.inflationAnnual),
      currentRent |-> p.rentEstimateMonthly,
      totalRentPaid |-> 0,
      maxMonths |-> p.originalTermYears * MonthsPerYear,
      investedEquity |-> p.downPayment,
      i |-> 0 ]

\* Line 241: i < maxMonths
CompareStops(l) == ~(l.i < l.maxMonths)

\* The payment of the month without the extra amortization.
CompareBuyCostWithoutExtra(buySchedule, i) ==
    IF i < Len(buySchedule) THEN buySchedule[i + 1].totalPayment ELSE 0

\* Line 246: the cash flow of the buy schedule in month i + 1, 0 after it.
CompareBuyCost(buySchedule, i) ==
    IF i < Len(buySchedule) THEN buySchedule[i + 1].totalCashFlow ELSE 0

\* Lines 243-279 and the i++ of line 241: one month of the invest path.
CompareMonth(buySchedule, l) ==
    LET grown == Mul(l.investedEquity, Add(RateScale, l.monthlyInvRate))
        buyCost == CompareBuyCost(buySchedule, l.i)
        rent == l.currentRent
        monthlyContribution == Sub(buyCost, rent)
    IN  [ l EXCEPT
            !.investedEquity = Add(grown, monthlyContribution),
            !.totalRentPaid = Add(l.totalRentPaid, rent),
            !.currentRent = Mul(l.currentRent, Add(RateScale, l.monthlyRentAdj)),
            !.i = l.i + 1 ]

\* The property value left as it was in the payoff month.
CompareFinalPropValueAtPayoff(p, buySchedule, maxMonths) ==
    buySchedule[Len(buySchedule)].propertyValue

\* Lines 285-290: the property value of the last installment, carried to the
\* end of the horizon; Math.pow(1 + a / 100, k / 12) is taken as the monthly
\* equivalent factor to the power k.
CompareFinalPropValue(p, buySchedule, maxMonths) ==
    LET lastInstallment == buySchedule[Len(buySchedule)]
        monthsSincePayoff == maxMonths - lastInstallment.month
    IN  IF monthsSincePayoff > 0
        THEN Mul(lastInstallment.propertyValue,
                 Pow(Add(RateScale, MonthlyEquivalent(p.propertyAppreciationAnnual)),
                     monthsSincePayoff))
        ELSE lastInstallment.propertyValue

\* Math.abs
AbsOf(x) == IF IsNaN(x) THEN NaN ELSE Abs(x)

\* The payoff month reported as the break-even month (a number, written in
\* decimal so that it can be told apart from null).
CompareBreakEvenMonthAtPayoff(buySchedule) == ToString(Len(buySchedule))

\* Line 308: breakEvenMonth
CompareBreakEvenMonth(buySchedule) == Null

\* The decision with the two sides of the comparison exchanged.
CompareDecisionExchanged(finalEquityBuy, investedEquity, buySchedule) ==
    [ financiallyBetter |-> IF Gt(investedEquity, finalEquityBuy) THEN "BUY"
                            ELSE "RENT_INVEST",
      difference |-> AbsOf(Sub(finalEquityBuy, investedEquity)),
      breakEvenMonth |-> CompareBreakEvenMonth(buySchedule) ]

\* Lines 305-309: the decision.
CompareDecision(finalEquityBuy, investedEquity, buySchedule) ==
    [ financiallyBetter |-> IF Gt(finalEquityBuy, investedEquity) THEN "BUY"
                            ELSE "RENT_INVEST",
      difference |-> AbsOf(Sub(finalEquityBuy, investedEquity)),
      breakEvenMonth |-> CompareBreakEvenMonth(buySchedule) ]

RECURSIVE SumCashFlow(_, _)
\* Line 296: buySchedule.reduce((a, b) => a + b.totalCashFlow, 0)
SumCashFlow(buySchedule, n) ==
    IF n = 0 THEN 0
    ELSE Add(SumCashFlow(buySchedule, n - 1), buySchedule[n].totalCashFlow)

\* Lines 292-310: the value returned.
CompareResult(p, buySchedule, l) ==
    LET finalEquityBuy == CompareFinalPropValue(p, buySchedule, l.maxMonths)
    IN  [ buyScenario |->
              [ totalPaid |-> SumCashFlow(buySchedule, Len(buySchedule)),
                finalNetEquity |-> finalEquityBuy,
                installments |-> buySchedule ],
          investScenario |->
              [ totalRentPaid |-> l.totalRentPaid,
                finalInvestedAmount |-> l.investedEquity,
                netEquity |-> l.investedEquity ],
          decision |-> CompareDecision(finalEquityBuy, l.investedEquity, buySchedule) ]

\* A caller invokes compareScenarios with p and the schedule generated for p.
CallCompare(p) ==
    /\ pc = "idle"
    /\ fn' = "compareScenarios"
    /\ params' = [sim |-> p, buySchedule |-> calculateAmortizationSchedule(p)]
    /\ loc' = CompareStart(p)
    /\ pc' = "loop"
    /\ result' = None
    /\ UNCHANGED first

CompareStep ==
    /\ pc = "loop"
    /\ fn = "compareScenarios"
    /\ ~CompareStops(loc)
    /\ loc' = CompareMonth(params.buySchedule, loc)
    /\ UNCHANGED <<fn, params, pc, result, first>>

CompareReturn ==
    /\ pc = "loop"
    /\ fn = "compareScenarios"
    /\ CompareStops(loc)
    /\ params.buySchedule # <<>>
    /\ result' = CompareResult(params.sim, params.buySchedule, loc)
    /\ pc' = "done"
    /\ UNCHANGED <<fn, params, loc, first>>

\* Line 286 with an empty schedule: lastInstallment is undefined and reading
\* its propertyValue raises a TypeError.
CompareThrow ==
    /\ pc = "loop"
    /\ fn = "compareScenarios"
    /\ CompareStops(loc)
    /\ params.buySchedule = <<>>
    /\ pc' = "thrown"
    /\ UNCHANGED <<fn, params, loc, result, first>>

CallCompareValid == \E p \in CompareParams : CallCompare(p)

NextCompare ==
    \/ CallCompareValid
    \/ CompareStep
    \/ CompareReturn
    \/ CompareThrow

SpecCompare == Init /\ [][NextCompare]_vars

(***************************************************************************)
(* Calls of calculateAmortization long enough to reach month 48, with a    *)
(* wallet small enough not to pay the loan off before.                     *)
(***************************************************************************)
WalletConfigs ==
    { FGTSOff,
      [initialBalance |-> Loan \div 128, monthlyGrossIncome |-> Loan \div 256,
       useEveryTwoYears |-> TRUE],
      [initialBalance |-> Loan \div 128, monthlyGrossIncome |-> Loan \div 256,
       useEveryTwoYears |-> FALSE] }

UtilsWalletParams ==
    [ propertyValue : {PropertyPrice},
      loanAmount : {Loan},
      annualInterestRate : AnnualRates,
      termMonths : {FGTSPeriod + 1, 2 * FGTSPeriod + 1},
      type : Types,
      monthlyExtra : {0, Loan \div 1024},
      oneTimeExtras : {NoExtras, FGTSPeriod :> Loan \div 512},
      appreciationRate : {Pct(5)},
      fgts : WalletConfigs ]

CallUtilsWallet == \E p \in UtilsWalletParams : CallUtils(p)

NextWallet ==
    \/ CallUtilsWallet
    \/ UtilsStep
    \/ UtilsReturn

SpecWallet == Init /\ [][NextWallet]_vars

(***************************************************************************)
(* Calls with arguments the interface calls invalid: a term of zero        *)
(* months, a down payment equal to the property value, a rate that is not  *)
(* a finite number.  Neither generator has a statement that rejects them.  *)
(***************************************************************************)
UtilsAnyParams ==
    [ propertyValue : {PropertyPrice},
      loanAmount : {0, Loan},
      annualInterestRate : {Pct(12), NaN},
      termMonths : 0 .. MaxTerm,
      type : Types,
      monthlyExtra : {0, Loan \div 16},
      oneTimeExtras : {NoExtras},
      appreciationRate : {Pct(5)},
      fgts : {FGTSOff} ]

EngineAnyParams ==
    { [ propertyValue |-> PropertyPrice,
        downPayment |-> PropertyPrice - principal,
        originalTermYears |-> years,
        interestRateAnnual |-> rate,
        amortizationSystem |-> system,
        insuranceRateMIP |-> 0,
        insuranceRateDFI |-> 0,
        adminFeeMonthly |-> 0,
        propertyAppreciationAnnual |-> Pct(5),
        extraAmortizationMonthly |-> extra,
        extraAmortizationLumpSums |-> NoExtras,
        strategyType |-> strategy ] :
      principal \in {0, Loan}, years \in 0 .. 1, rate \in {Pct(12), NaN},
      system \in Types, extra \in {0, Loan \div 16}, strategy \in Strategies }

CallUtilsAny == \E p \in UtilsAnyParams : CallUtils(p)
CallEngineAny == \E p \in EngineAnyParams : CallEngine(p)

NextAnyInput ==
    \/ CallUtilsAny
    \/ UtilsStep
    \/ UtilsReturn
    \/ CallEngineAny
    \/ EngineStep
    \/ EngineReturn

SpecAnyInput == Init /\ [][NextAnyInput]_vars

(***************************************************************************)
(* Several calls, one after the other.  The locals of a call that returned *)
(* stay where they are until the next call sets its own.                   *)
(***************************************************************************)
UtilsFewParams ==
    [ propertyValue : {PropertyPrice},
      loanAmount : {Loan},
      annualInterestRate : {Pct(0), Pct(12)},
      termMonths : 2 .. MaxTerm,
      type : Types,
      monthlyExtra : {0, Loan \div 16, Loan \div 3},
      oneTimeExtras : {NoExtras},
      appreciationRate : {Pct(5)},
      fgts : {FGTSOff} ]

EngineFewParams ==
    { p \in EngineParams :
        /\ p.downPayment = PropertyPrice - Loan
        /\ p.originalTermYears = 1
        /\ p.interestRateAnnual = Pct(12)
        /\ p.insuranceRateMIP = 0
        /\ p.extraAmortizationLumpSums = NoExtras }

\* Solver calls made between two calls of a generator.
SolverFewParams ==
    { p \in SolverParams :
        /\ p.loanAmount = Loan
        /\ p.annualInterestRate = Pct(12)
        /\ p.termMonths = MaxTerm
        /\ p.targetMonths = 2 }

CallUtilsAgain == \E p \in UtilsFewParams : CallUtils(p)
CallEngineAgain == \E p \in EngineFewParams : CallEngine(p)
CallSolverAgain == \E p \in SolverFewParams : CallSolver(p)

\* The caller takes the value returned; the first one is remembered.
TakeResult ==
    /\ pc = "done"
    /\ pc' = "idle"
    /\ first' = IF first = None
                THEN [fn |-> fn, params |-> params, result |-> result]
                ELSE first
    /\ UNCHANGED <<fn, params, loc, result>>

NextCalls ==
    \/ CallUtilsAgain
    \/ UtilsStep
    \/ UtilsReturn
    \/ CallEngineAgain
    \/ EngineStep
    \/ EngineReturn
    \/ CallSolverAgain
    \/ SolverStep
    \/ SolverReturn
    \/ TakeResult

SpecCalls == Init /\ [][NextCalls]_vars

(***************************************************************************)
(* What the claims speak of.                                               *)
(***************************************************************************)
IsUtils == fn = "calculateAmortization"
IsEngine == fn = "calculateAmortizationSchedule"
Running == pc \in {"loop", "done"} /\ (IsUtils \/ IsEngine)
Returned == pc = "done" /\ (IsUtils \/ IsEngine)

Schedule == loc.installments
TermOfCall == IF IsUtils THEN params.termMonths ELSE loc.totalMonths
PrincipalOfCall == IF IsUtils THEN params.loanAmount ELSE loc.loanAmount
RateOfCall == IF IsUtils THEN params.annualInterestRate ELSE params.interestRateAnnual
SystemOfCall == IF IsUtils THEN params.type ELSE params.amortizationSystem
MonthlyExtraOfCall ==
    IF IsUtils THEN params.monthlyExtra ELSE params.extraAmortizationMonthly
LumpSumsOfCall ==
    IF IsUtils THEN params.oneTimeExtras ELSE params.extraAmortizationLumpSums
\* The balance an installment records after its month.
FinalBalanceOf(inst) == IF IsUtils THEN inst.balance ELSE inst.finalBalance
\* The balance the schedule ends with: that of its last installment, or the
\* principal when no installment was emitted.
FinalBalance ==
    IF Schedule = <<>> THEN PrincipalOfCall
    ELSE FinalBalanceOf(Schedule[Len(Schedule)])
ZeroWithinTol(x) == Le(0 - Tol, x) /\ Le(x, Tol)

\* C1: when either generator returns, the schedule ends with a balance that
\* is zero within the 0.01 tolerance or it is as long as the original term.
C1_PaidOffOrFullTerm ==
    Returned => ZeroWithinTol(FinalBalance) \/ Len(Schedule) = TermOfCall

\* C1 witness: a schedule that ended before its term, on a zero balance,
\* after months with a positive remaining balance.
C1_Witness ==
    /\ Returned
    /\ Gt(PrincipalOfCall, Tol)
    /\ Len(Schedule) >= 2
    /\ Len(Schedule) < TermOfCall
    /\ ZeroWithinTol(FinalBalance)

\* The annuity formula divides 0 by 0: the PRICE system at a zero rate.
ZeroRatePrice == RateOfCall = 0 /\ SystemOfCall = "PRICE"

CappedIn(r) ==
    /\ Le(Add(r.amortization, r.extraAmortization), r.initialBalance)
    /\ Le(0, FinalBalanceOf(r))

LumpSumAbovePrincipal ==
    /\ 1 \in DOMAIN LumpSumsOfCall
    /\ Gt(LumpSumsOfCall[1], PrincipalOfCall)

\* C2: in every month amortization + extraAmortization <= the balance before
\* the month and the recorded final balance is not negative; a one-time extra
\* above the whole principal in month 1 gives a schedule of length 1 that
\* ends on a zero balance.
C2_ExtraCapped ==
    Running =>
        /\ \A k \in 1 .. Len(Schedule) : CappedIn(Schedule[k])
        /\ (Returned /\ LumpSumAbovePrincipal) =>
               (Len(Schedule) = 1 /\ Eq(FinalBalance, 0))

\* C2 away from its two failing inputs (the 0/0 of the annuity formula, and
\* a principal the engine already counts as paid off): holds.
C2_ExtraCappedElsewhere ==
    (Running /\ ~ZeroRatePrice /\ Gt(PrincipalOfCall, Tol)) =>
        /\ \A k \in 1 .. Len(Schedule) : CappedIn(Schedule[k])
        /\ (Returned /\ LumpSumAbovePrincipal) =>
               (Len(Schedule) = 1 /\ Eq(FinalBalance, 0))

ConservedIn(r) ==
    Eq(FinalBalanceOf(r),
       Sub(Sub(r.initialBalance, r.amortization), r.extraAmortization))

Chained ==
    /\ Schedule # <<>> => Eq(Schedule[1].initialBalance, PrincipalOfCall)
    /\ \A k \in 1 .. Len(Schedule) - 1 :
          Eq(Schedule[k + 1].initialBalance, FinalBalanceOf(Schedule[k]))

\* C3: every installment has finalBalance = initialBalance - amortization -
\* extraAmortization, each initial balance is the final balance of the month
\* before, and the first is the principal.
C3_Conservation ==
    Running => (\A k \in 1 .. Len(Schedule) : ConservedIn(Schedule[k])) /\ Chained

\* C3 away from the 0/0 of the annuity formula: holds.
C3_ConservationElsewhere ==
    (Running /\ ~ZeroRatePrice) =>
        (\A k \in 1 .. Len(Schedule) : ConservedIn(Schedule[k])) /\ Chained

\* C5: the totalSaved calculateAmortization returns is >= 0 (the extras drawn
\* are all non-negative).
C5_TotalSavedNonNegative == (Returned /\ IsUtils) => Le(0, result.totalSaved)

\* C5 away from the 0/0 of the annuity formula: holds.
C5_TotalSavedElsewhere ==
    (Returned /\ IsUtils /\ ~ZeroRatePrice) => Le(0, result.totalSaved)

FiniteFields(r) == \A f \in DOMAIN r : r[f] # NaN /\ r[f] # Infinity

\* C7: at a zero rate under PRICE every installment has finite numeric fields
\* and the loan is paid off when the generator returns.
C7_ZeroRateFinite ==
    (Running /\ ZeroRatePrice) =>
        /\ \A k \in 1 .. Len(Schedule) : FiniteFields(Schedule[k])
        /\ Returned => ZeroWithinTol(FinalBalance)

\* The length of the schedule the running generator gives for the same
\* arguments with another recurring extra.
LengthWithExtra(e) ==
    IF IsUtils
    THEN LET q == [params EXCEPT !.monthlyExtra = e]
         IN  Len(UtilsRun(q, UtilsStart(q)).installments)
    ELSE LET q == [params EXCEPT !.extraAmortizationMonthly = e]
         IN  Len(EngineRun(q, EngineStart(q)).installments)

\* The recurring extras compared with the one of the call: one unit more,
\* and steps up to more than the whole principal.
LargerExtras ==
    { MonthlyExtraOfCall + d : d \in {1, Loan \div 64, Loan \div 5, 2 * Loan} }

MonthsInOrder ==
    Running =>
        /\ \A k \in 1 .. Len(Schedule) : Schedule[k].month = k
        /\ Len(Schedule) <= TermOfCall

\* One step of a running generator appends at most one installment and
\* leaves those already emitted as they were.
AppendOnlyStep ==
    pc = "loop" =>
        /\ Len(loc'.installments) \in {Len(Schedule), Len(Schedule) + 1}
        /\ SubSeq(loc'.installments, 1, Len(Schedule)) = Schedule

\* C10: at every step the months emitted so far are exactly 1, 2, ..., k, the
\* schedule never exceeds the original term, and a step only appends: an
\* installment already emitted is never changed.
C10_AppendOnly == [](MonthsInOrder) /\ [][AppendOnlyStep]_vars

\* C10 witness: a third installment has been appended to a running schedule.
C10_Witness == pc = "loop" /\ (IsUtils \/ IsEngine) /\ Len(Schedule) = 3

\* The arguments the interface calls invalid.
InvalidInput ==
    \/ IsNaN(RateOfCall)
    \/ TermOfCall <= 0
    \/ Le(PrincipalOfCall, 0)

\* C8: invalid input is reported as a failure before any simulation work: a
\* generator never returns a value (an empty sequence, installments built on
\* a division by zero) for it.
C8_InvalidInputRejected == Returned => ~InvalidInput

\* C9: a call with the arguments of the first call returns what the first
\* call returned, whatever was called in between.
C9_Deterministic ==
    (Returned /\ first # None /\ first.fn = fn /\ first.params = params) =>
        result = first.result

\* C9 witness: the arguments of the first call are used again, and the call
\* returns a schedule with installments and a positive interest total.
C9_Witness ==
    /\ Returned
    /\ IsUtils
    /\ first # None
    /\ first.fn = fn
    /\ first.params = params
    /\ Len(Schedule) >= 2
    /\ MonthlyExtraOfCall > 0
    /\ Gt(result.totalInterest, 0)

SolverReturned == pc = "done" /\ fn = "calculateExtraNeeded"
SolverZeroRatePrice == params.annualInterestRate = 0 /\ params.type = "PRICE"
\* The length of the schedule the solver's call gives with recurring extra e.
SolverLength(e) == Len(SolverCall(params, e).installments)
\* The width of the last bisection interval.
SolverEps == Sub(loc.high, loc.low)

SolverAnswerMinimal ==
    /\ SolverLength(result) <= params.targetMonths
    /\ SolverLength(result) >= params.targetMonths - 1
    /\ SolverLength(Sub(result, SolverEps)) > params.targetMonths

\* C6: for a target t with 1 <= t < termMonths, the schedule with the extra x
\* that calculateExtraNeeded returns has length <= t, within one month of t,
\* and the schedule with x - eps (eps the width of the last bisection
\* interval) has length > t.
C6_SolverMinimal == SolverReturned => SolverAnswerMinimal

\* C6 away from the 0/0 of the annuity formula: holds.
C6_SolverMinimalElsewhere ==
    (SolverReturned /\ ~SolverZeroRatePrice) => SolverAnswerMinimal

\* No extra payment of any kind is offered in the call.
NoExtraPayments ==
    /\ MonthlyExtraOfCall = 0
    /\ LumpSumsOfCall = NoExtras
    /\ IsUtils => (params.fgts.initialBalance = 0 /\ params.fgts.monthlyGrossIncome = 0)

\* principal / originalTermMonths
FixedAmortization == Div(PrincipalOfCall, TermOfCall)

SacInstallment(r) ==
    /\ Eq(r.amortization,
          IF Gt(FixedAmortization, r.initialBalance) THEN r.initialBalance
          ELSE FixedAmortization)
    /\ Eq(Sub(r.payment, r.extraAmortization), Add(r.amortization, r.interest))

\* C11: under SAC every installment of calculateAmortization has amortization
\* = principal / termMonths, or the balance before the month when the fixed
\* amount exceeds it, and payment (before the extra) = amortization +
\* interest; with no extra payments the schedule is as long as the term.
C11_SacFixedAmortization ==
    (Running /\ IsUtils /\ SystemOfCall = "SAC") =>
        /\ \A k \in 1 .. Len(Schedule) : SacInstallment(Schedule[k])
        /\ (Returned /\ NoExtraPayments) => Len(Schedule) = TermOfCall

\* C11 witness: a returned SAC schedule with interest whose last month had
\* its amortization replaced by the balance that was left.
C11_Witness ==
    /\ Returned
    /\ IsUtils
    /\ SystemOfCall = "SAC"
    /\ RateOfCall > 0
    /\ Len(Schedule) >= 3
    /\ Eq(Schedule[1].amortization, FixedAmortization)
    /\ Lt(Schedule[Len(Schedule)].amortization, FixedAmortization)
    /\ Gt(Schedule[Len(Schedule)].amortization, 0)

\* The payment of an installment before the extra and the fees.
ScheduledPayment(r) ==
    IF IsUtils THEN Sub(r.payment, r.extraAmortization)
    ELSE Sub(Sub(Sub(r.totalPayment, r.insuranceMIP), r.insuranceDFI), r.adminFee)

MonthlyRateOfCall == IF IsUtils THEN loc.monthlyInterestRate ELSE loc.monthlyRate
\* calculateAmortization has the REDUCE_TERM behaviour only.
ReduceTerm == IsUtils \/ params.strategyType = "REDUCE_TERM"
\* The annuity over the principal, the monthly rate and the original term.
OriginalPMT == PricePayment(PrincipalOfCall, MonthlyRateOfCall, TermOfCall)

\* An installment paid by the annuity pmt: amortization = pmt - interest, or
\* the balance before the month when that exceeds it.
AnnuityInstallment(r, pmt) ==
    IF Gt(Sub(pmt, r.interest), r.initialBalance)
    THEN /\ Eq(r.amortization, r.initialBalance)
         /\ Eq(ScheduledPayment(r), Add(r.amortization, r.interest))
    ELSE /\ Eq(ScheduledPayment(r), pmt)
         /\ Eq(r.amortization, Sub(pmt, r.interest))

\* C12: under PRICE with the REDUCE_TERM behaviour every installment's
\* payment before extras and fees is the one PMT computed from the principal,
\* the monthly rate and the original term, and amortization = PMT - interest,
\* except in a month whose amortization is capped to the remaining balance.
C12_PriceFixedPayment ==
    (Running /\ SystemOfCall = "PRICE" /\ ReduceTerm) =>
        \A k \in 1 .. Len(Schedule) : AnnuityInstallment(Schedule[k], OriginalPMT)

\* C12 away from the 0/0 of the annuity formula: holds.
C12_PriceFixedPaymentElsewhere ==
    (Running /\ SystemOfCall = "PRICE" /\ ReduceTerm /\ ~ZeroRatePrice) =>
        \A k \in 1 .. Len(Schedule) : AnnuityInstallment(Schedule[k], OriginalPMT)

ReduceInstallmentPrice ==
    IsEngine /\ SystemOfCall = "PRICE" /\ params.strategyType = "REDUCE_INSTALLMENT"

\* The annuity over the balance before the month and the months that remain.
RecomputedPMT(r) ==
    PricePayment(r.initialBalance, MonthlyRateOfCall, TermOfCall - r.month + 1)

RecomputedEveryMonth ==
    \A k \in 1 .. Len(Schedule) :
        /\ AnnuityInstallment(Schedule[k], RecomputedPMT(Schedule[k]))
        /\ Le(0, Schedule[k].amortization)
        /\ Le(Schedule[k].amortization, Schedule[k].initialBalance)

\* The payments are compared up to the 0.01 the amounts are rounded within:
\* two roundings of one annuity may differ in the last digit.
PaymentRecomputed ==
    /\ RecomputedEveryMonth
    /\ \A k \in 1 .. Len(Schedule) - 1 :
          Le(ScheduledPayment(Schedule[k + 1]), Add(ScheduledPayment(Schedule[k]), Tol))

\* C13: under PRICE with REDUCE_INSTALLMENT the payment of every month is the
\* annuity over the current balance and the remaining months (term - month +
\* 1), the payment before extras and fees never increases from one month to
\* the next (beyond rounding), and the scheduled amortization lies in
\* [0, balance before].
C13_PaymentRecomputed == (Running /\ ReduceInstallmentPrice) => PaymentRecomputed

\* C13 away from the 0/0 of the annuity formula: holds.
C13_PaymentRecomputedElsewhere ==
    (Running /\ ReduceInstallmentPrice /\ ~ZeroRatePrice) => PaymentRecomputed

\* The schedule the engine gives for the arguments of the call with every
\* extra payment removed.
ScheduleWithoutExtras ==
    calculateAmortizationSchedule(
        [params EXCEPT !.extraAmortizationMonthly = 0,
                       !.extraAmortizationLumpSums = NoExtras])

\* The schedule the engine gives for the arguments of the call with the
\* other strategy.
ScheduleOfOtherStrategy ==
    calculateAmortizationSchedule(
        [params EXCEPT !.strategyType =
            IF params.strategyType = "REDUCE_TERM" THEN "REDUCE_INSTALLMENT"
            ELSE "REDUCE_TERM"])

\* The scheduled payment is the one of the schedule without extras: the fixed
\* amortization plus interest under SAC, the original annuity under PRICE.
ScheduledPaymentUnchanged ==
    \A k \in 1 .. Len(Schedule) :
        IF SystemOfCall = "SAC"
        THEN /\ Eq(Schedule[k].amortization,
                   IF Gt(FixedAmortization, Schedule[k].initialBalance)
                   THEN Schedule[k].initialBalance ELSE FixedAmortization)
             /\ Eq(ScheduledPayment(Schedule[k]),
                   Add(Schedule[k].amortization, Schedule[k].interest))
        ELSE AnnuityInstallment(Schedule[k], OriginalPMT)

TermShortened ==
    Len(Schedule) <= Len(ScheduleWithoutExtras) /\ ScheduledPaymentUnchanged

\* C14: under REDUCE_TERM the extras shorten the schedule and leave the
\* scheduled payment as it was; under REDUCE_INSTALLMENT the schedule stays as
\* long as the original term; for SAC and for PRICE.
C14_StrategySemantics ==
    (Returned /\ IsEngine /\ Gt(PrincipalOfCall, Tol)) =>
        IF params.strategyType = "REDUCE_TERM" THEN TermShortened
        ELSE Len(Schedule) = TermOfCall

\* C14, what holds: the REDUCE_TERM half away from the 0/0 of the annuity
\* formula, and under SAC a schedule that is the same for both strategies.
C14_ReduceTermAndSacAlike ==
    (Returned /\ IsEngine /\ Gt(PrincipalOfCall, Tol)) =>
        /\ (params.strategyType = "REDUCE_TERM" /\ ~ZeroRatePrice) => TermShortened
        /\ SystemOfCall = "SAC" => Schedule = ScheduleOfOtherStrategy

\* 8% of the monthly gross income.
WalletDeposit == Mul(params.fgts.monthlyGrossIncome, FGTSRate)

\* The wallet after k simulated months.
WalletAfter(k) ==
    IF params.fgts.useEveryTwoYears /\ k >= FGTSPeriod
    THEN (k % FGTSPeriod) * WalletDeposit
    ELSE params.fgts.initialBalance + k * WalletDeposit

\* What the wallet adds to the extra offered in month k.
WalletOffered(k) ==
    IF params.fgts.useEveryTwoYears /\ k % FGTSPeriod = 0
    THEN IF k = FGTSPeriod
         THEN params.fgts.initialBalance + FGTSPeriod * WalletDeposit
         ELSE FGTSPeriod * WalletDeposit
    ELSE 0

\* C15: after k simulated months of calculateAmortization the wallet holds
\* initialBalance + k deposits of 8% of the gross income, or, with
\* useEveryTwoYears, the deposits made since the last month divisible by 24;
\* the extra offered in month k is the recurring extra + the one-time extra of
\* the month + the whole wallet when k is divisible by 24 and the flag is on
\* (initialBalance + 24 deposits at month 24, 24 deposits later), and nothing
\* from the wallet in any other month or with the flag off.
C15_FGTSWallet ==
    (Running /\ IsUtils) =>
        LET k == Len(Schedule)
        IN  /\ loc.currentFGTSBalance = WalletAfter(k)
            /\ k >= 1 =>
                  loc.extra = params.monthlyExtra + Lookup(params.oneTimeExtras, k)
                                + WalletOffered(k)

\* C15 witness: month 48 has been simulated with the flag on: the wallet has
\* been emptied a second time, 24 deposits after the first.
C15_Witness ==
    /\ Running
    /\ IsUtils
    /\ params.fgts.useEveryTwoYears
    /\ Len(Schedule) = 2 * FGTSPeriod
    /\ loc.currentFGTSBalance = 0
    /\ loc.extra = params.monthlyExtra + FGTSPeriod * WalletDeposit
    /\ WalletDeposit > 0

IsCompare == fn = "compareScenarios"
CompareRunning == IsCompare /\ pc \in {"loop", "done", "thrown"}
CompareReturned == IsCompare /\ pc = "done"
HorizonMonths == params.sim.originalTermYears * MonthsPerYear

\* The budget of month m: the cash flow of installment m, 0 past the schedule.
BudgetAt(m) ==
    IF m <= Len(params.buySchedule) THEN params.buySchedule[m].totalCashFlow ELSE 0

RECURSIVE InvestPath(_)
\* The invest path after m months: the pot starts at the down payment and is
\* every month grown by the monthly investment rate before budget - rent is
\* added; the rent starts at the estimate and grows by the monthly inflation
\* rate after every month; paid is the sum of the rents charged.
InvestPath(m) ==
    IF m = 0
    THEN [ pot |-> params.sim.downPayment,
           rent |-> params.sim.rentEstimateMonthly,
           paid |-> 0 ]
    ELSE LET q == InvestPath(m - 1)
         IN  [ pot |-> Add(Mul(q.pot, Add(RateScale,
                               MonthlyEquivalent(params.sim.investmentBenchmarkAnnual))),
                           Sub(BudgetAt(m), q.rent)),
               rent |-> Mul(q.rent, Add(RateScale,
                                MonthlyEquivalent(params.sim.inflationAnnual))),
               paid |-> Add(q.paid, q.rent) ]

PotAfter(m) == InvestPath(m).pot
RentPaidAfter(m) == InvestPath(m).paid
\* The rent charged in month m.
RentAt(m) == InvestPath(m - 1).rent

\* C16: compareScenarios simulates exactly originalTermYears * 12 months from a
\* pot equal to the down payment; after m months the pot is the one obtained
\* by growing it each month by the monthly investment rate and then adding
\* budget - rent (budget the totalCashFlow of installment m, 0 past the
\* schedule), the rent growing by the monthly inflation rate after each month;
\* totalRentPaid is the sum of the rents of all the months.
C16_InvestPath ==
    CompareRunning =>
        /\ loc.i <= HorizonMonths
        /\ loc.investedEquity = PotAfter(loc.i)
        /\ loc.totalRentPaid = RentPaidAfter(loc.i)
        /\ pc # "loop" => loc.i = HorizonMonths
        /\ pc = "done" =>
              /\ result.investScenario.finalInvestedAmount = PotAfter(HorizonMonths)
              /\ result.investScenario.totalRentPaid = RentPaidAfter(HorizonMonths)

\* C16 witness: a comparison returned whose buy schedule ended before the
\* horizon and whose rent, above the budget, drew the pot below the down
\* payment.
C16_Witness ==
    /\ CompareReturned
    /\ Len(params.buySchedule) < HorizonMonths
    /\ params.sim.extraAmortizationMonthly > 0
    /\ params.sim.inflationAnnual > 0
    /\ Gt(RentAt(1), BudgetAt(1))
    /\ Lt(loc.investedEquity, params.sim.downPayment)
    /\ Gt(result.investScenario.totalRentPaid, HorizonMonths * params.sim.rentEstimateMonthly)

CompareZeroRatePrice ==
    params.sim.interestRateAnnual = 0 /\ params.sim.amortizationSystem = "PRICE"

DecisionRule(r) ==
    LET buy == r.buyScenario.finalNetEquity
        pot == r.investScenario.finalInvestedAmount
    IN  /\ r.decision.financiallyBetter = (IF Gt(buy, pot) THEN "BUY" ELSE "RENT_INVEST")
        /\ Eq(r.decision.difference, AbsOf(Sub(buy, pot)))
        /\ Le(0, r.decision.difference)

\* C17: financiallyBetter is BUY exactly when the final equity of the buy
\* scenario is strictly greater than the final invested pot and RENT_INVEST
\* otherwise; difference is the absolute value of their gap and is not
\* negative.
C17_DecisionRule == CompareReturned => DecisionRule(result)

\* C17 away from the 0/0 of the annuity formula: holds.
C17_DecisionRuleElsewhere ==
    (CompareReturned /\ ~CompareZeroRatePrice) => DecisionRule(result)

\* The original property value compounded over every month of the horizon.
FullHorizonValue ==
    Mul(params.sim.propertyValue,
        Pow(Add(RateScale, MonthlyEquivalent(params.sim.propertyAppreciationAnnual)),
            HorizonMonths))

\* C18: whatever the month the loan is paid off in, the final equity of the
\* buy scenario is the original property value compounded over all the
\* originalTermYears * 12 months of the horizon (to the 0.01 the amounts are
\* rounded within).
C18_PropertyValueContinued ==
    CompareReturned =>
        ZeroWithinTol(Sub(result.buyScenario.finalNetEquity, FullHorizonValue))

\* C18 witness: a comparison returned for a loan paid off in the first half of
\* the horizon, after more than one installment.
C18_Witness ==
    /\ CompareReturned
    /\ Len(params.buySchedule) >= 2
    /\ 2 * Len(params.buySchedule) < HorizonMonths
    /\ Gt(result.buyScenario.finalNetEquity,
          params.buySchedule[Len(params.buySchedule)].propertyValue)

\* C19: the break-even month of every ComparisonResult returned is the "not
\* computed" value null, never a number.
C19_BreakEvenNotComputed ==
    CompareReturned =>
        result.decision.breakEvenMonth = Null

\* C19 witness: a comparison returned in which buying wins, so that a month
\* in which it overtakes renting exists, and none is reported.
C19_Witness ==
    /\ CompareReturned
    /\ Len(params.buySchedule) >= 2
    /\ result.decision.financiallyBetter = "BUY"
    /\ Gt(result.decision.difference, 0)
    /\ result.decision.breakEvenMonth = Null

\* A margin of more than 40 percentage points a year.
WideMargin == Pct(40)
ExceedsWidely(a, b) == Gt(Sub(a, b), WideMargin)

BenchmarkDominates ==
    /\ ExceedsWidely(params.sim.investmentBenchmarkAnnual,
                     params.sim.propertyAppreciationAnnual)
    /\ ExceedsWidely(params.sim.investmentBenchmarkAnnual,
                     params.sim.interestRateAnnual)

PropertyAndMortgageDominate ==
    /\ Gt(params.sim.propertyAppreciationAnnual, params.sim.investmentBenchmarkAnnual)
    /\ Gt(params.sim.interestRateAnnual, params.sim.investmentBenchmarkAnnual)

\* No month of the horizon leaves anything of the budget to invest: the rent
\* of the month is at least the buy scenario's cash flow of the month.
RentAbsorbsBudget == \A m \in 1 .. HorizonMonths : Le(BudgetAt(m), RentAt(m))

EngineRegularPayment(r) ==
    IF SystemOfCall = "SAC" THEN Add(r.amortization, r.interest)
    ELSE LET pmt == IF params.strategyType = "REDUCE_INSTALLMENT" THEN RecomputedPMT(r)
                    ELSE OriginalPMT
         IN  IF Gt(Sub(pmt, r.interest), r.initialBalance)
             THEN Add(r.amortization, r.interest)
             ELSE pmt

FeesIn(r) ==
    /\ Eq(r.insuranceMIP, Mul(r.initialBalance, params.insuranceRateMIP))
    /\ Eq(r.insuranceDFI, Mul(params.propertyValue, params.insuranceRateDFI))
    /\ Eq(r.insuranceDFI, Schedule[1].insuranceDFI)
    /\ r.adminFee = params.adminFeeMonthly
    /\ Eq(r.totalPayment,
          Add(Add(Add(EngineRegularPayment(r), r.insuranceMIP), r.insuranceDFI),
              r.adminFee))
    /\ Eq(r.totalCashFlow, Add(r.totalPayment, r.extraAmortization))

\* C21: in every installment of calculateAmortizationSchedule the balance
\* insurance is the balance before the month times its rate, the property
\* insurance is the original property value times its rate (the same every
\* month), the admin fee is the parameter, totalPayment = scheduled payment +
\* both insurances + admin fee and totalCashFlow = totalPayment +
\* extraAmortization.
C21_Fees ==
    (Running /\ IsEngine) => \A k \in 1 .. Len(Schedule) : FeesIn(Schedule[k])

\* C21 away from the 0/0 of the annuity formula: holds.
C21_FeesElsewhere ==
    (Running /\ IsEngine /\ ~ZeroRatePrice) =>
        \A k \in 1 .. Len(Schedule) : FeesIn(Schedule[k])

RECURSIVE CompoundedValue(_)
\* The original property value compounded m times by the monthly-equivalent
\* appreciation rate.
CompoundedValue(m) ==
    IF m = 0 THEN params.propertyValue
    ELSE Mul(CompoundedValue(m - 1),
             Add(RateScale, MonthlyEquivalent(params.propertyAppreciationAnnual)))

PropertyValueIn(r) == Eq(r.propertyValue, CompoundedValue(r.month))
NetEquityIn(r) == Eq(r.netEquity, Sub(r.propertyValue, r.finalBalance))

\* C22: in every installment m of calculateAmortizationSchedule the property
\* value is the original one compounded m times by the monthly-equivalent
\* appreciation rate, whatever the balance, the system and the extras, and
\* netEquity = that property value - the final balance of the month.
C22_PropertyValue ==
    (Running /\ IsEngine) =>
        \A k \in 1 .. Len(Schedule) :
            PropertyValueIn(Schedule[k]) /\ NetEquityIn(Schedule[k])

\* C22, what holds: the property value in every call, the net equity away
\* from the 0/0 of the annuity formula.
C22_PropertyValueElsewhere ==
    (Running /\ IsEngine) =>
        \A k \in 1 .. Len(Schedule) :
            /\ PropertyValueIn(Schedule[k])
            /\ ~ZeroRatePrice => NetEquityIn(Schedule[k])

\* What calculateAmortization returns for the loan, rate, term and system of
\* the call with every extra-payment field zeroed.
ResultWithoutExtras ==
    calculateAmortization(
        [params EXCEPT !.monthlyExtra = 0, !.oneTimeExtras = NoExtras, !.fgts = FGTSOff])

\* monthsReduced is looked at for a principal above 0.01 only: below it the
\* annuity is a few units of 1/MoneyScale, and its rounding to a whole unit
\* ends the schedule months early, which the doubles of the program do not.
BaselineEquivalent ==
    /\ Eq(calculateAmortizationBase(params), ResultWithoutExtras.totalInterest)
    /\ NoExtraPayments =>
          /\ Eq(result.totalSaved, 0)
          /\ Gt(PrincipalOfCall, Tol) => result.monthsReduced = 0

\* C23: the reference total interest of calculateAmortizationBase equals the
\* totalInterest calculateAmortization returns for the same loan, rate, term
\* and system with all extra-payment fields zeroed; hence with no extras
\* totalSaved = 0 and monthsReduced = 0.
C23_BaselineEquivalence == (Returned /\ IsUtils) => BaselineEquivalent

\* C23 away from the 0/0 of the annuity formula.
C23_BaselineEquivalenceElsewhere ==
    (Returned /\ IsUtils /\ ~ZeroRatePrice) => BaselineEquivalent

\* No installment of the schedule starts from a balance of at most t.
NoneStartsAtMost(t) == \A k \in 1 .. Len(Schedule) : ~Le(Schedule[k].initialBalance, t)

\* C24: neither generator ever emits an installment whose initial balance is
\* <= 0.01: the loop ends as soon as the balance after a month is within the
\* tolerance of zero.
C24_StopsAtTolerance == Running => NoneStartsAtMost(Tol)

\* C24, what holds: calculateAmortizationSchedule emits none from a balance
\* <= 0.01, calculateAmortization none from a balance <= 0.
C24_StopsAtOwnThreshold ==
    Running => IF IsEngine THEN NoneStartsAtMost(Tol) ELSE NoneStartsAtMost(0)

IsSolver == fn = "calculateExtraNeeded"
SolverRunning == IsSolver /\ pc \in {"loop", "done"}
SolverMidpoint == Div(Add(loc.low, loc.high), 2)

\* base ^ n, a plain integer.
RECURSIVE PowerOf(_, _)
PowerOf(base, n) == IF n = 0 THEN 1 ELSE base * PowerOf(base, n - 1)

\* After i steps the interval is the i-th half of [0, loanAmount]; a midpoint
\* is rounded to the unit of 1/MoneyScale, so each halving is within half a
\* unit.
WidthHalved ==
    Abs(PowerOf(2, loc.i) * SolverEps - params.loanAmount) <= PowerOf(2, loc.i)

SolverBounds ==
    /\ loc.i \in 0 .. SolverIterations
    /\ Le(0, loc.low) /\ Le(loc.low, loc.high) /\ Le(loc.high, params.loanAmount)
    /\ WidthHalved
    /\ loc.low = 0 \/ SolverLength(loc.low) > params.targetMonths
    /\ loc.high = params.loanAmount \/ SolverLength(loc.high) <= params.targetMonths
    /\ pc = "done" => (loc.i = SolverIterations /\ result = loc.high)

\* One step: the generator is asked for the schedule at the midpoint, and the
\* bound on the side the answer names moves to the midpoint.
BisectionStep ==
    (IsSolver /\ pc = "loop" /\ pc' = "loop") =>
        /\ loc'.i = loc.i + 1
        /\ loc'.extra = SolverMidpoint
        /\ IF SolverLength(SolverMidpoint) > params.targetMonths
           THEN loc'.low = SolverMidpoint /\ loc'.high = loc.high
           ELSE loc'.high = SolverMidpoint /\ loc'.low = loc.low
        /\ Abs(2 * (loc'.high - loc'.low) - SolverEps) <= 1

\* The loop is left after the twentieth step and not before.
NoEarlyExit == (IsSolver /\ pc = "loop" /\ pc' = "done") => loc.i = SolverIterations

\* C25: calculateExtraNeeded makes exactly 20 bisection steps with no early
\* exit, each asking the generator once at the midpoint of [low, high]; after
\* every step 0 <= low <= high <= loanAmount and high - low is half what it
\* was; low is raised to the midpoint only when the midpoint's schedule is
\* longer than the target, otherwise high is lowered to it; the value
\* returned is the final upper bound.
C25_Bisection ==
    /\ [](SolverRunning => SolverBounds)
    /\ [][BisectionStep /\ NoEarlyExit]_vars

\* C25 witness: the solver has returned after twenty steps that moved both
\* bounds, the interval down to a unit.
C25_Witness ==
    /\ IsSolver
    /\ pc = "done"
    /\ loc.i = SolverIterations
    /\ loc.low > 0
    /\ loc.high < params.loanAmount
    /\ SolverEps <= 2
    /\ result = loc.high

\* C26: for a positive rate (and the non-negative extras, either system and
\* either strategy of the valid inputs) the schedule calculateAmortizationSchedule
\* returns ends with a final balance that is zero within the 0.01 tolerance:
\* the debt is retired by the horizon.
C26_DebtRetired ==
    (Returned /\ IsEngine /\ RateOfCall > 0) =>
        /\ Len(Schedule) <= TermOfCall
        /\ ZeroWithinTol(FinalBalance)

\* C26 witness: a PRICE schedule with REDUCE_INSTALLMENT and a one-time extra
\* that ran the whole term and retired the debt in its last month.
C26_Witness ==
    /\ Returned
    /\ IsEngine
    /\ RateOfCall > 0
    /\ ReduceInstallmentPrice
    /\ LumpSumsOfCall # NoExtras
    /\ Len(Schedule) = TermOfCall
    /\ Gt(Schedule[Len(Schedule)].initialBalance, Tol)
    /\ ZeroWithinTol(FinalBalance)

CompareRaised == IsCompare /\ pc = "thrown"

\* C27: compareScenarios returns a ComparisonResult and never raises, whatever
\* schedule the generator returned, the empty one of a principal <= 0.01
\* included.
C27_NeverRaises == ~CompareRaised

\* C27, what holds: it raises for the empty schedule and for no other.
C27_RaisesOnEmptyOnly == CompareRaised <=> (CompareRunning /\ pc # "loop" /\ params.buySchedule = <<>>)

RECURSIVE PaymentsUpTo(_)
\* The sum of the payments of the first n installments.
PaymentsUpTo(n) == IF n = 0 THEN 0 ELSE Add(PaymentsUpTo(n - 1), Schedule[n].payment)

RECURSIVE InterestsUpTo(_)
\* The sum of the interests of the first n installments.
InterestsUpTo(n) == IF n = 0 THEN 0 ELSE Add(InterestsUpTo(n - 1), Schedule[n].interest)

AccountedIn(r) ==
    Eq(r.payment, Add(Add(r.interest, r.amortization), r.extraAmortization))

Accounted ==
    /\ \A k \in 1 .. Len(Schedule) : AccountedIn(Schedule[k])
    /\ Eq(loc.totalPaid, PaymentsUpTo(Len(Schedule)))
    /\ Eq(loc.totalInterest, InterestsUpTo(Len(Schedule)))
    /\ Eq(Sub(loc.totalPaid, loc.totalInterest), Sub(PrincipalOfCall, FinalBalance))
    /\ pc = "done" =>
          /\ Eq(result.totalPaid, loc.totalPaid)
          /\ Eq(result.totalInterest, loc.totalInterest)
          /\ Eq(FinalBalance, 0) =>
                Eq(Sub(result.totalPaid, result.totalInterest), PrincipalOfCall)

\* C28: in calculateAmortization every installment has payment = interest +
\* amortization + extraAmortization, totalPaid is the sum of the payments and
\* totalInterest the sum of the interests of the installments emitted, so
\* totalPaid - totalInterest = loanAmount - final balance, which is loanAmount
\* when the loan is paid off, for SAC and PRICE alike.
C28_Accounting == (Running /\ IsUtils) => Accounted

\* C28 away from the 0/0 of the annuity formula: holds.
C28_AccountingElsewhere == (Running /\ IsUtils /\ ~ZeroRatePrice) => Accounted

(***************************************************************************)
(* The application (App.tsx): the state of the simulator and the call of   *)
(* calculateAmortization a render makes from it.                           *)
(***************************************************************************)
AppTerms == {MonthsPerYear \div 2, MonthsPerYear + 1, 2 * MonthsPerYear,
             2 * MonthsPerYear + 6}

\* The useState values the computation reads; the loans are those of
\* LoanAmounts of at least a cent.
AppStates ==
    [ propertyValue : {PropertyPrice},
      downPayment : {PropertyPrice - Loan, PropertyPrice - (Loan + (Loan \div 2) + 7)},
      interestRate : AnnualRates,
      termMonths : AppTerms,
      type : Types,
      monthlyExtra : {0, Loan \div 16},
      strategyMode : {"VALUE", "TIME"},
      targetYears : 1 .. MaxYears ]

\* Line 190.
AppLoanAmount(s) == Sub(s.propertyValue, s.downPayment)

\* Lines 193-203.
calculateMonthlyPayment(principal, annualRate, months, amortType) ==
    LET monthlyRate == Div(Hundredth(annualRate), 12)
    IN  IF amortType = "PRICE"
        THEN IF monthlyRate = 0 THEN Div(principal, months)
             ELSE PricePayment(principal, monthlyRate, months)
        ELSE Add(Div(principal, months), Mul(principal, monthlyRate))

\* Lines 205-207.
baseMonthlyPayment(s) ==
    calculateMonthlyPayment(AppLoanAmount(s), s.interestRate, s.termMonths, s.type)

\* Lines 209-215.
calculatedExtraValue(s) ==
    IF s.strategyMode = "VALUE" THEN s.monthlyExtra
    ELSE LET targetMonths == s.targetYears * 12
             requiredMonthlyPayment ==
                 calculateMonthlyPayment(AppLoanAmount(s), s.interestRate,
                                         targetMonths, s.type)
         IN  IF targetMonths >= s.termMonths THEN 0
             ELSE Max(0, Sub(requiredMonthlyPayment, baseMonthlyPayment(s)))

\* Line 217.
activeExtra(s) ==
    IF s.strategyMode = "VALUE" THEN s.monthlyExtra ELSE calculatedExtraValue(s)

\* Lines 219-221: the arguments of the call.  The record also keeps the
\* strategy mode and the target the extra was computed from, which
\* calculateAmortization does not read.
AppArguments(s) ==
    [ propertyValue |-> s.propertyValue,
      loanAmount |-> AppLoanAmount(s),
      annualInterestRate |-> s.interestRate,
      termMonths |-> s.termMonths,
      type |-> s.type,
      monthlyExtra |-> activeExtra(s),
      oneTimeExtras |-> NoExtras,
      appreciationRate |-> Pct(5),
      fgts |-> FGTSOff,
      strategyMode |-> s.strategyMode,
      targetYears |-> s.targetYears ]

\* A render of the application in state s computes its result.
AppRender == \E s \in AppStates : CallUtils(AppArguments(s))

NextApp ==
    \/ AppRender
    \/ UtilsStep
    \/ UtilsReturn

SpecApp == Init /\ [][NextApp]_vars

(***************************************************************************)
(* C29: the target-time strategy of the application.                       *)
(***************************************************************************)
TimeMode == Running /\ IsUtils /\ params.strategyMode = "TIME"
TargetMonths == params.targetYears * MonthsPerYear
TargetShorter == TargetMonths < TermOfCall

\* The first payment of the loan of the call over a term of the given months.
PaymentOver(months) ==
    calculateMonthlyPayment(PrincipalOfCall, RateOfCall, months, SystemOfCall)

ExtraForTarget == Max(0, Sub(PaymentOver(TargetMonths), PaymentOver(TermOfCall)))

\* The schedule ends within one month of the target with nothing owed.
PaidOffAtTarget ==
    /\ Len(Schedule) >= TargetMonths - 1
    /\ Len(Schedule) <= TargetMonths + 1
    /\ ZeroWithinTol(FinalBalance)

TargetTime(excepted) ==
    TimeMode =>
        /\ TargetShorter => Eq(MonthlyExtraOfCall, ExtraForTarget)
        /\ (TargetShorter /\ pc = "done" /\ ~excepted) => PaidOffAtTarget
        /\ ~TargetShorter => Eq(MonthlyExtraOfCall, 0)

\* C29: in TIME mode with a target of targetYears * 12 months shorter than
\* the term, the extra passed to calculateAmortization is max(0, payment
\* over the target term - payment over the original term) and the schedule
\* returned pays the loan off in the target months, give or take one, under
\* SAC and under PRICE; with a target not shorter than the term the extra is
\* zero.
C29_TargetTime == TargetTime(FALSE)

\* The same for every call but those of PRICE at a rate of zero.
C29_TargetTimeElsewhere == TargetTime(ZeroRatePrice)

(***************************************************************************)
(* C30: without extras the two strategies of PRICE give one schedule.      *)
(***************************************************************************)
\* Two amounts equal to the 0.01 the amounts are rounded within.
CloseTo(x, y) == ZeroWithinTol(Sub(x, y))

SameInstallment(a, b) ==
    /\ a.month = b.month
    /\ CloseTo(a.initialBalance, b.initialBalance)
    /\ CloseTo(a.interest, b.interest)
    /\ CloseTo(a.amortization, b.amortization)
    /\ CloseTo(a.totalPayment, b.totalPayment)
    /\ CloseTo(a.totalCashFlow, b.totalCashFlow)
    /\ CloseTo(a.finalBalance, b.finalBalance)

SameSequence(s, t) ==
    /\ Len(s) = Len(t)
    /\ \A k \in 1 .. Len(s) : SameInstallment(s[k], t[k])

PriceWithoutExtras ==
    Returned /\ IsEngine /\ SystemOfCall = "PRICE" /\ NoExtraPayments

StrategiesAgree ==
    /\ SameSequence(Schedule, ScheduleOfOtherStrategy)
    /\ \A k \in 1 .. Len(Schedule) : CloseTo(RecomputedPMT(Schedule[k]), OriginalPMT)

\* C30: with a recurring extra of 0 and no one-time extras the schedule
\* calculateAmortizationSchedule returns under PRICE is the same, installment
\* by installment, for REDUCE_INSTALLMENT as for REDUCE_TERM: the annuity
\* recomputed each month from the current balance and the remaining months
\* is the payment computed once over the original term (to the 0.01 the
\* amounts are rounded within).
C30_StrategiesAgree == PriceWithoutExtras => StrategiesAgree

\* C30 away from the 0/0 of the annuity formula: holds; at a zero rate the
\* two schedules have the same months and no payment that is a number.
C30_StrategiesAgreeElsewhere ==
    PriceWithoutExtras =>
        IF ZeroRatePrice
        THEN /\ Len(Schedule) = Len(ScheduleOfOtherStrategy)
             /\ \A k \in 1 .. Len(Schedule) :
                   /\ IsNaN(Schedule[k].totalPayment)
                   /\ IsNaN(ScheduleOfOtherStrategy[k].totalPayment)
        ELSE StrategiesAgree

====
